---------------------------- MODULE Spec2Model ----------------------------
(***************************************************************************)
(* Model of the SIR simulation engine: the model variants, the validators  *)
(* and the useSimulation controller (debounced recomputation and rescaling *)
(* of the initial state on a model switch).                                *)
(*                                                                         *)
(* Numbers.  A JavaScript number is modelled as an exact fraction n/d in   *)
(* lowest terms with d > 0, or as one of the three non-finite values:      *)
(* 1/0 is +Infinity, -1/0 is -Infinity and 0/0 is NaN.  Arithmetic follows *)
(* IEEE-754 on the non-finite values (x/0, 0/0, Infinity*0, ...); rounding *)
(* of finite results and the sign of zero are not represented.             *)
(***************************************************************************)
EXTENDS Integers, Sequences, FiniteSets, TLC

(***************************************************************************)
(* Bounds of the model.                                                    *)
(***************************************************************************)
\* Number of controller operations (setParameter, setInitialState,
\* setSelectedModel) called in one behaviour.
MaxCalls == 3
\* Resolution of the clock: the debounce delay is divided in this many ticks.
TicksPerDelay == 2
\* Number of operation calls in the behaviours checked for liveness.
MaxFairCalls == 2

(***************************************************************************)
(* Numbers                                                                 *)
(***************************************************************************)
Abs(i) == IF i < 0 THEN -i ELSE i

Sign(i) == IF i > 0 THEN 1 ELSE IF i < 0 THEN -1 ELSE 0

\* Euclid's algorithm
GCD[a \in Nat, b \in Nat] == IF b = 0 THEN a ELSE GCD[b, a % b]

\* The numbers of the model
Num == [n : Int, d : Nat]

\* The arithmetic is defined by functions, which are applied to values: an
\* operand is evaluated once however often the definition uses it.

\* The number n/d, in lowest terms; d = 0 gives Infinity, -Infinity or NaN.
RatF[n \in Int, d \in Int] ==
    IF d = 0 THEN [n |-> Sign(n), d |-> 0]
    ELSE LET g == GCD[Abs(n), Abs(d)]
             s == Sign(d)
         IN  [n |-> (s * n) \div g, d |-> (s * d) \div g]

Rat(n, d) == RatF[n, d]

Int2Num(i) == [n |-> i, d |-> 1]

Zero == Int2Num(0)
One == Int2Num(1)
NaN == [n |-> 0, d |-> 0]
Infinity == [n |-> 1, d |-> 0]
NegInfinity == [n |-> -1, d |-> 0]

isNaNF[x \in Num] == x.d = 0 /\ x.n = 0
isNaN(x) == isNaNF[x]

isFiniteF[x \in Num] == x.d # 0
isFinite(x) == isFiniteF[x]

\* Common factors are removed before the products are formed.
MulF[x \in Num, y \in Num] ==
    IF isFinite(x) /\ isFinite(y)
    THEN LET g1 == GCD[Abs(x.n), y.d]
             g2 == GCD[Abs(y.n), x.d]
         IN  RatF[(x.n \div g1) * (y.n \div g2), (x.d \div g2) * (y.d \div g1)]
    ELSE RatF[x.n * y.n, x.d * y.d]
Mul(x, y) == MulF[x, y]

DivF[x \in Num, y \in Num] ==
    IF isFinite(x) /\ isFinite(y) /\ y.n # 0
    THEN LET g1 == GCD[Abs(x.n), Abs(y.n)]
             g2 == GCD[x.d, y.d]
         IN  RatF[(x.n \div g1) * (y.d \div g2), (x.d \div g2) * (y.n \div g1)]
    ELSE RatF[x.n * y.d, x.d * y.n]
Div(x, y) == DivF[x, y]

NegF[x \in Num] == [n |-> -x.n, d |-> x.d]
Neg(x) == NegF[x]

AddF[x \in Num, y \in Num] ==
    IF isFinite(x) /\ isFinite(y)
    THEN LET g == GCD[x.d, y.d]
         IN  RatF[x.n * (y.d \div g) + y.n * (x.d \div g), (x.d \div g) * y.d]
    ELSE IF isNaN(x) \/ isNaN(y) THEN NaN
    ELSE IF isFinite(x) THEN y
    ELSE IF isFinite(y) THEN x
    ELSE IF x = y THEN x ELSE NaN

Add(x, y) == AddF[x, y]

Sub(x, y) == AddF[x, NegF[y]]

\* x < y as JavaScript evaluates it: false when either side is NaN.
LtF[x \in Num, y \in Num] ==
    IF isNaN(x) \/ isNaN(y) THEN FALSE
    ELSE IF isFinite(x) /\ isFinite(y)
         THEN \* the integer parts decide, or else the fractional parts
              IF x.n \div x.d # y.n \div y.d
              THEN x.n \div x.d < y.n \div y.d
              ELSE (x.n % x.d) * y.d < (y.n % y.d) * x.d
    ELSE IF x = y THEN FALSE
    ELSE x = NegInfinity \/ y = Infinity

Lt(x, y) == LtF[x, y]

Gt(x, y) == LtF[y, x]

\* floor of a finite number
Floor(x) == x.n \div x.d


(***************************************************************************)
(* Model variants (BasicSIR, NaturalDemographics, DiseaseDeaths)           *)
(***************************************************************************)
ParamNames == {"beta", "gamma", "mu", "alpha", "N"}

\* The model registry: the names of the registered variants.
MODELS == {"basic-sir", "natural-demographics", "disease-deaths"}

getRequiredParameters(m) ==
    CASE m = "basic-sir" -> {"beta", "gamma"}
      [] m = "natural-demographics" -> {"beta", "gamma", "mu", "N"}
      [] m = "disease-deaths" -> {"beta", "gamma", "mu", "alpha", "N"}

\* `params.k === undefined`
Undefined(params, k) == k \notin DOMAIN params

\* The outcome of a call: a returned value, or a thrown Error.
Returns(v) == [threw |-> FALSE, value |-> v]
Throws == [threw |-> TRUE, value |-> NaN]

BasicSIR_calculateR0(params) == Returns(Div(params.beta, params.gamma))

\* calculateR0 of NaturalDemographics as it would be were mu left out of the
\* denominator
NaturalDemographics_calculateR0_WithoutMu(params) ==
    IF Undefined(params, "mu") THEN Throws
    ELSE IF params.gamma = Zero
         THEN Returns(IF Gt(params.beta, Zero) THEN Infinity ELSE Zero)
         ELSE Returns(Div(params.beta, params.gamma))

NaturalDemographics_calculateR0(params) ==
    IF Undefined(params, "mu") THEN Throws
    ELSE LET denominator == Add(params.gamma, params.mu)
         IN  IF denominator = Zero
             THEN Returns(IF Gt(params.beta, Zero) THEN Infinity ELSE Zero)
             ELSE Returns(Div(params.beta, denominator))

DiseaseDeaths_calculateR0(params) ==
    IF Undefined(params, "mu") \/ Undefined(params, "alpha") THEN Throws
    ELSE Returns(Div(params.beta,
                     Add(Add(params.gamma, params.mu), params.alpha)))

calculateR0(m, params) ==
    CASE m = "basic-sir" -> BasicSIR_calculateR0(params)
      [] m = "natural-demographics" -> NaturalDemographics_calculateR0(params)
      [] m = "disease-deaths" -> DiseaseDeaths_calculateR0(params)

\* computeDerivatives of BasicSIR as it would be were the recoveries not
\* taken from the infected
BasicSIR_computeDerivatives_WithoutRecovery(state, params) ==
    LET bSI == Mul(Mul(params.beta, state.S), state.I)
        gI  == Mul(params.gamma, state.I)
    IN  Returns([S |-> Neg(bSI), I |-> bSI, R |-> gI])

BasicSIR_computeDerivatives(state, params) ==
    LET bSI == Mul(Mul(params.beta, state.S), state.I)
        gI  == Mul(params.gamma, state.I)
    IN  Returns([S |-> Neg(bSI), I |-> Sub(bSI, gI), R |-> gI])

\* The guards as they would be were DiseaseDeaths' guard that of every
\* variant with vital dynamics
computeDerivativesThrows_SameGuard(m, params) ==
    /\ m # "basic-sir"
    /\ \/ Undefined(params, "mu") \/ Undefined(params, "alpha")
       \/ Undefined(params, "N")

\* The guards `mu === undefined || ...` of the variants' computeDerivatives.
computeDerivativesThrows(m, params) ==
    CASE m = "basic-sir" -> FALSE
      [] m = "natural-demographics" ->
             Undefined(params, "mu") \/ Undefined(params, "N")
      [] m = "disease-deaths" ->
             Undefined(params, "mu") \/ Undefined(params, "alpha")
             \/ Undefined(params, "N")

NaturalDemographics_computeDerivatives(state, params) ==
    IF computeDerivativesThrows("natural-demographics", params) THEN Throws
    ELSE LET P    == Add(Add(state.S, state.I), state.R)
             bSIN == Div(Mul(Mul(params.beta, state.S), state.I), params.N)
             gI   == Mul(params.gamma, state.I)
         IN  Returns(
               [S |-> Sub(Sub(Mul(params.mu, P), bSIN), Mul(params.mu, state.S)),
                I |-> Sub(Sub(bSIN, gI), Mul(params.mu, state.I)),
                R |-> Sub(gI, Mul(params.mu, state.R))])

DiseaseDeaths_computeDerivatives(state, params) ==
    IF computeDerivativesThrows("disease-deaths", params) THEN Throws
    ELSE LET bSIN == Div(Mul(Mul(params.beta, state.S), state.I), params.N)
             gI   == Mul(params.gamma, state.I)
         IN  Returns(
               [S |-> Sub(Sub(Mul(params.mu, params.N), bSIN),
                          Mul(params.mu, state.S)),
                I |-> Sub(Sub(Sub(bSIN, gI), Mul(params.mu, state.I)),
                          Mul(params.alpha, state.I)),
                R |-> Sub(gI, Mul(params.mu, state.R))])

computeDerivatives(m, state, params) ==
    CASE m = "basic-sir" -> BasicSIR_computeDerivatives(state, params)
      [] m = "natural-demographics" ->
             NaturalDemographics_computeDerivatives(state, params)
      [] m = "disease-deaths" -> DiseaseDeaths_computeDerivatives(state, params)

(***************************************************************************)
(* Validators (utils/calculations)                                         *)
(***************************************************************************)
PARAMETER_RANGES ==
    [beta  |-> <<Rat(1, 100000), Int2Num(10)>>,
     gamma |-> <<Rat(1, 1000), Int2Num(10)>>,
     mu    |-> <<Zero, One>>,
     alpha |-> <<Zero, Int2Num(10)>>,
     N     |-> <<One, Int2Num(1000000)>>]

Valid == [isValid |-> TRUE, error |-> ""]
Invalid(msg) == [isValid |-> FALSE, error |-> msg]

\* validateParameter as it would be were the bounds of a range excluded
validateParameter_ExclusiveBounds(paramName, value) ==
    IF isNaN(value) \/ ~isFinite(value)
    THEN Invalid(paramName \o " must be a valid number")
    ELSE LET min == PARAMETER_RANGES[paramName][1]
             max == PARAMETER_RANGES[paramName][2]
         IN  IF ~Gt(value, min) \/ ~Lt(value, max)
             THEN Invalid(paramName \o " must be between min and max")
             ELSE Valid

validateParameter(paramName, value) ==
    IF isNaN(value) \/ ~isFinite(value)
    THEN Invalid(paramName \o " must be a valid number")
    ELSE LET min == PARAMETER_RANGES[paramName][1]
             max == PARAMETER_RANGES[paramName][2]
         IN  IF Lt(value, min) \/ Gt(value, max)
             THEN Invalid(paramName \o " must be between min and max")
             ELSE Valid

\* sum > N + 1e-10, the tolerance being 1/(TenPow5 * TenPow5)
TenPow5 == 100000

ExceedsWithTolerance(sum, N) ==
    IF isFinite(sum) /\ isFinite(N)
    THEN LET diff == Sub(sum, N)
         IN  diff.n > 0 /\ (diff.d < TenPow5
                             \/ diff.n * TenPow5 > diff.d \div TenPow5)
    ELSE Gt(sum, N)

validateInitialConditions(S0, I0, R0, N) ==
    IF isNaN(S0) \/ ~isFinite(S0) \/ isNaN(I0) \/ ~isFinite(I0)
       \/ isNaN(R0) \/ ~isFinite(R0)
    THEN Invalid("Initial conditions must be valid numbers")
    ELSE IF Lt(S0, Zero) \/ Lt(I0, Zero) \/ Lt(R0, Zero)
    THEN Invalid("Initial conditions must be non-negative")
    ELSE IF ExceedsWithTolerance(Add(Add(S0, I0), R0), N)
    THEN Invalid("Sum of initial conditions must not exceed total population")
    ELSE Valid

\* validateAllParameters as it would be were every name of the parameters
\* validated, required or not
validateAllParameters_EveryName(parameters, requiredParams) ==
    [param \in {q \in requiredParams \cup DOMAIN parameters :
                  q \notin DOMAIN parameters \/ q \in DOMAIN PARAMETER_RANGES} |->
        IF param \notin DOMAIN parameters
        THEN Invalid(param \o " is required")
        ELSE validateParameter(param, parameters[param])]

\* One entry per required name that is absent, or that has a range.
validateAllParameters(parameters, requiredParams) ==
    [param \in {q \in requiredParams :
                  q \notin DOMAIN parameters \/ q \in DOMAIN PARAMETER_RANGES} |->
        IF param \notin DOMAIN parameters
        THEN Invalid(param \o " is required")
        ELSE validateParameter(param, parameters[param])]

\* `values.some((v) => !isFinite(v))`; the Greek letters of the message are
\* spelled out
validateSimulationValues(values) ==
    IF \E i \in DOMAIN values : ~isFinite(values[i])
    THEN Invalid("Simulation produced invalid values (NaN or Infinity). Try reducing beta or increasing gamma.")
    ELSE Valid

\* validateSimulationResult as it would be were the sequences checked from
\* the last to the first
validateSimulationResult_LastFirst(result) ==
    LET timeValidation == validateSimulationValues(result.t)
        sValidation    == validateSimulationValues(result.S)
        iValidation    == validateSimulationValues(result.I)
        rValidation    == validateSimulationValues(result.R)
    IN  IF ~rValidation.isValid
        THEN Invalid("Recovered population values are invalid. "
                     \o rValidation.error)
        ELSE IF ~iValidation.isValid
        THEN Invalid("Infected population values are invalid. "
                     \o iValidation.error)
        ELSE IF ~sValidation.isValid
        THEN Invalid("Susceptible population values are invalid. "
                     \o sValidation.error)
        ELSE IF ~timeValidation.isValid
        THEN Invalid("Time values are invalid")
        ELSE Valid

validateSimulationResult(result) ==
    LET timeValidation == validateSimulationValues(result.t)
        sValidation    == validateSimulationValues(result.S)
        iValidation    == validateSimulationValues(result.I)
        rValidation    == validateSimulationValues(result.R)
    IN  IF ~timeValidation.isValid
        THEN Invalid("Time values are invalid")
        ELSE IF ~sValidation.isValid
        THEN Invalid("Susceptible population values are invalid. "
                     \o sValidation.error)
        ELSE IF ~iValidation.isValid
        THEN Invalid("Infected population values are invalid. "
                     \o iValidation.error)
        ELSE IF ~rValidation.isValid
        THEN Invalid("Recovered population values are invalid. "
                     \o rValidation.error)
        ELSE Valid

areAllValid(validationResults) ==
    \A param \in DOMAIN validationResults : validationResults[param].isValid

(***************************************************************************)
(* Integrator (RK4Solver) as the controller sees it.  The controller runs  *)
(* 5000 or 10000 double-precision steps; the model does not evaluate them. *)
(* A trajectory is represented by the call that produced it, and whether   *)
(* the double-precision run overflowed to a non-finite value in S, I or R  *)
(* is an input of the call (overflow).                                     *)
(***************************************************************************)
solve(m, initialState, params, timeSpan, timeStep, overflow) ==
    LET tStart   == timeSpan[1]
        tEnd     == timeSpan[2]
        numSteps == Floor(Div(Sub(tEnd, tStart), timeStep))
    IN  IF numSteps > 0 /\ computeDerivativesThrows(m, params)
        THEN Throws
        ELSE Returns([derivatives |-> m, initialState |-> initialState,
                      params |-> params, tStart |-> tStart,
                      timeStep |-> timeStep, length |-> numSteps + 1,
                      finite |-> ~(numSteps > 0 /\ overflow)])

(***************************************************************************)
(* Integrator (RK4Solver) evaluated step by step, in exact arithmetic.     *)
(* The derivative function passed to it is that of a variant, or one of    *)
(* the functions of the integrator's tests.                                *)
(***************************************************************************)
\* The states.  Like the arithmetic, the steps of the integrator are defined
\* by functions, applied to values.
ModelStates == [S : Num, I : Num, R : Num]

\* state + scale * derivative
addScaledF[state \in ModelStates, derivative \in ModelStates, scale \in Num] ==
    [S |-> Add(state.S, Mul(scale, derivative.S)),
     I |-> Add(state.I, Mul(scale, derivative.I)),
     R |-> Add(state.R, Mul(scale, derivative.R))]

addScaled(state, derivative, scale) == addScaledF[state, derivative, scale]

\* The slopes as they would be were the middle ones not counted twice
Slopes_Unweighted(k1, k2, k3, k4) == Add(Add(Add(k1, k2), k3), k4)

\* k1 + 2*k2 + 2*k3 + k4
Slopes(k1, k2, k3, k4) ==
    Add(Add(Add(k1, Mul(Int2Num(2), k2)), Mul(Int2Num(2), k3)), k4)

\* y_next = y + (h/6) * (k1 + 2*k2 + 2*k3 + k4), component by component
NextState[state \in ModelStates, k \in Seq(ModelStates), h6 \in Num] ==
    [S |-> Add(state.S, Mul(h6, Slopes(k[1].S, k[2].S, k[3].S, k[4].S))),
     I |-> Add(state.I, Mul(h6, Slopes(k[1].I, k[2].I, k[3].I, k[4].I))),
     R |-> Add(state.R, Mul(h6, Slopes(k[1].R, k[2].R, k[3].R, k[4].R)))]

\* `(state, params) => model.computeDerivatives(state, params)`, the function
\* the controller passes, and `() => c`, a function that is constant
ModelDerivatives(m) == [m |-> m]
ConstantDerivatives(c) == [c |-> c]

\* derivatives(state, params)
Apply(derivatives, state, params) ==
    IF "m" \in DOMAIN derivatives
    THEN computeDerivatives(derivatives.m, state, params)
    ELSE Returns(derivatives.c)

DerivativesThrow(derivatives, params) ==
    "m" \in DOMAIN derivatives /\ computeDerivativesThrows(derivatives.m, params)

\* The slopes k1, ..., k4: k[i] is the derivative function at the state of
\* stage i (state, state + (h/2) k1, state + (h/2) k2, state + h k3).  It is
\* called with parameters it does not throw on.
rk4Step(derivatives, state, params, h) ==
    LET k[i \in 1..4] ==
            Apply(
                derivatives,
                IF i = 1 THEN state
                ELSE addScaledF[state, k[i - 1],
                                IF i = 4 THEN h ELSE Div(h, Int2Num(2))],
                params).value
    IN  NextState[state, <<k[1], k[2], k[3], k[4]>>, Div(h, Int2Num(6))]

\* What the loop holds: the arrays, the current state and the current time.
Stored ==
    [I : Seq(Num), R : Seq(Num), S : Seq(Num), currentState : ModelStates,
     currentTime : Num, t : Seq(Num)]

\* `// Store results`: the new point is pushed onto the arrays.
Store[done \in Stored, currentState \in ModelStates, currentTime \in Num] ==
    [I |-> Append(done.I, currentState.I),
     R |-> Append(done.R, currentState.R),
     S |-> Append(done.S, currentState.S),
     currentState |-> currentState,
     currentTime |-> currentTime,
     t |-> Append(done.t, currentTime)]

\* The integration loop, from the point reached after `step` steps
rk4Loop(derivatives, params, timeStep, numSteps, step, done) ==
    LET loop[i \in Nat, stored \in Stored] ==
            IF ~(i < numSteps) THEN stored
            ELSE loop[i + 1,
                      Store[stored,
                            rk4Step(derivatives, stored.currentState, params,
                                    timeStep),
                            Add(stored.currentTime, timeStep)]]
    IN  loop[step, done]

\* `return { t, S, I, R }`
Arrays[done \in Stored] ==
    [I |-> done.I, R |-> done.R, S |-> done.S, t |-> done.t]

\* The number of steps as it would be were the quotient rounded up
NumSteps_RoundedUp(timeSpan, timeStep) ==
    -Floor(Neg(Div(Sub(timeSpan[2], timeSpan[1]), timeStep)))

\* Math.floor((tEnd - tStart) / timeStep), for a finite quotient
NumSteps(timeSpan, timeStep) ==
    Floor(Div(Sub(timeSpan[2], timeSpan[1]), timeStep))

\* RK4Solver.solve: the arrays t, S, I, R (index 0 of the code is index 1 of
\* the sequences), or the Error thrown by the first call of the derivative
\* function.
RK4Solver_solve(derivatives, initialState, params, timeSpan, timeStep) ==
    LET tStart   == timeSpan[1]
        numSteps == NumSteps(timeSpan, timeStep)
        stored   == [I |-> <<initialState.I>>,
                     R |-> <<initialState.R>>,
                     S |-> <<initialState.S>>,
                     currentState |-> initialState,
                     currentTime |-> tStart,
                     t |-> <<tStart>>]
        done     == rk4Loop(derivatives, params, timeStep, numSteps, 0, stored)
    IN  IF numSteps > 0 /\ DerivativesThrow(derivatives, params)
        THEN Throws
        ELSE Returns(Arrays[done])

(***************************************************************************)
(* SimulationController (the useSimulation hook)                           *)
(***************************************************************************)
DEFAULT_PARAMETERS ==
    [beta |-> Rat(1, 2), gamma |-> Rat(1, 10), mu |-> Rat(1, 100),
     alpha |-> Rat(1, 20), N |-> Int2Num(1000)]

DEFAULT_INITIAL_STATE == [S |-> Rat(99, 100), I |-> Rat(1, 100), R |-> Zero]

DEBOUNCE_DELAY == 300

\* `null`, and a non-null value
null == << >>
Some(v) == << v >>

\* debounceTimerRef.current === null
NoTimer == 0

VARIABLES
    selectedModel,      \* useState: name of the selected variant
    parameters,         \* useState: ModelParameters, a map name -> number
    initialState,       \* useState: ModelState [S, I, R]
    simulationResult,   \* useState: null or Some(SimulationResult)
    r0Value,            \* useState: number
    parameterErrors,    \* useState: map name -> message
    initialStateError,  \* useState: message, "" when valid
    debounceTimerRef,   \* useRef: handle of the timer armed last, or NoTimer
    timers,             \* the pending setTimeout callbacks of the event loop
    calls,              \* number of controller operations called so far
    lastOp,             \* the operation called last, and the state it found
    sinceEdit,          \* time elapsed since the last edit was applied
    burst,              \* edits applied in a row less than the delay apart
    runLog,             \* the computations completed since the last edit
    call                \* a function of the engine called on its own: the
                        \* function, its arguments and its outcome

vars == <<selectedModel, parameters, initialState, simulationResult, r0Value,
          parameterErrors, initialStateError, debounceTimerRef, timers,
          calls, lastOp, sinceEdit, burst, runLog, call>>

\* The state of the controller
controller == <<selectedModel, parameters, initialState, simulationResult,
                r0Value, parameterErrors, initialStateError, debounceTimerRef,
                timers, calls, lastOp, sinceEdit, burst, runLog>>

\* No function has been called on its own.
NoCall == [args |-> << >>, fn |-> "", ret |-> << >>]

inputs == <<selectedModel, parameters, initialState>>
published == <<simulationResult, r0Value, parameterErrors, initialStateError>>

\* What the callbacks would close over were the initial state a switch writes
\* applied in a later render than the variant and the parameters: the variant
\* and parameters written, with the initial state of the render before.
Closure_InitialStateLater(m, p, s) ==
    [selectedModel |-> m, parameters |-> p, initialState |-> initialState]

\* What a render's callbacks close over.
Closure(m, p, s) == [selectedModel |-> m, parameters |-> p, initialState |-> s]

\* validateCurrentParameters: the error map and the verdict
validateCurrentParameters(c) ==
    LET requiredParams == getRequiredParameters(c.selectedModel)
        validationResults == validateAllParameters(c.parameters, requiredParams)
    IN  [errors |-> [param \in {q \in DOMAIN validationResults :
                                  ~validationResults[q].isValid
                                  /\ validationResults[q].error # ""} |->
                        validationResults[param].error],
         ok |-> areAllValid(validationResults)]

\* `parameters.N || 1`: undefined, 0 and NaN are falsy
OrOne(params) ==
    IF Undefined(params, "N") \/ params.N = Zero \/ isNaN(params.N)
    THEN One ELSE params.N

validateCurrentInitialState(c) ==
    LET requiredParams == getRequiredParameters(c.selectedModel)
        N == IF "N" \in requiredParams THEN OrOne(c.parameters) ELSE One
        result == validateInitialConditions(c.initialState.S, c.initialState.I,
                                            c.initialState.R, N)
    IN  [error |-> IF result.isValid THEN "" ELSE result.error,
         ok |-> result.isValid]

\* The time span as it would be were every variant given BasicSIR's
TimeSpanFor_AlwaysShort(m) == <<Zero, Int2Num(100)>>

\* The time span and step runSimulation passes to the integrator.
TimeSpanFor(m) ==
    IF "mu" \in getRequiredParameters(m)
    THEN <<Zero, Int2Num(500)>> ELSE <<Zero, Int2Num(100)>>

TimeStepFor(m) ==
    IF "mu" \in getRequiredParameters(m) THEN Rat(1, 10) ELSE Rat(1, 100)

\* runSimulation as it would be were the outcome of the initial-condition
\* validation ignored: the integrator then runs on an infeasible initial state.
runSimulation_IgnoresInitialStateValid(c, overflow) ==
    LET pv == validateCurrentParameters(c)
        iv == validateCurrentInitialState(c)
        r0 == calculateR0(c.selectedModel, c.parameters)
        result == solve(c.selectedModel, c.initialState, c.parameters,
                        TimeSpanFor(c.selectedModel),
                        TimeStepFor(c.selectedModel), overflow)
        base == [parameterErrors |-> pv.errors, initialStateError |-> iv.error,
                 simulationResult |-> null, r0Value |-> Zero,
                 solveCalled |-> FALSE, solveArgs |-> null,
                 caught |-> FALSE, escaped |-> FALSE]
        called == [base EXCEPT !.solveCalled = TRUE,
                               !.solveArgs = Some([
                                   timeSpan |-> TimeSpanFor(c.selectedModel),
                                   timeStep |-> TimeStepFor(c.selectedModel)])]
    IN  IF ~pv.ok THEN base
        ELSE IF r0.threw THEN [base EXCEPT !.caught = TRUE]
        ELSE IF ~isFinite(r0.value) THEN base
        ELSE IF result.threw
             THEN [called EXCEPT !.caught = TRUE]
        ELSE IF ~result.value.finite
             THEN [called EXCEPT !.r0Value = r0.value]
        ELSE [called EXCEPT !.r0Value = r0.value,
                            !.simulationResult = Some(result.value)]

\* What one call of runSimulation publishes.  r0Value is written at line
\* 361 before the integrator runs; the non-finite branch (lines 383-387)
\* writes simulationResult only.
runSimulation(c, overflow) ==
    LET pv == validateCurrentParameters(c)
        iv == validateCurrentInitialState(c)
        r0 == calculateR0(c.selectedModel, c.parameters)
        result == solve(c.selectedModel, c.initialState, c.parameters,
                        TimeSpanFor(c.selectedModel),
                        TimeStepFor(c.selectedModel), overflow)
        base == [parameterErrors |-> pv.errors, initialStateError |-> iv.error,
                 simulationResult |-> null, r0Value |-> Zero,
                 solveCalled |-> FALSE, solveArgs |-> null,
                 caught |-> FALSE, escaped |-> FALSE]
        called == [base EXCEPT !.solveCalled = TRUE,
                               !.solveArgs = Some([
                                   timeSpan |-> TimeSpanFor(c.selectedModel),
                                   timeStep |-> TimeStepFor(c.selectedModel)])]
    IN  IF ~pv.ok \/ ~iv.ok THEN base
        ELSE IF r0.threw THEN [base EXCEPT !.caught = TRUE]
        ELSE IF ~isFinite(r0.value) THEN base
        ELSE IF result.threw
             THEN [called EXCEPT !.caught = TRUE]
        ELSE IF ~result.value.finite
             THEN [called EXCEPT !.r0Value = r0.value]
        ELSE [called EXCEPT !.r0Value = r0.value,
                            !.simulationResult = Some(result.value)]

(***************************************************************************)
(* The debounce timer and the auto-recalculate effect                      *)
(***************************************************************************)
\* clearTimeout as it would be were the handle passed to it a stale one: no
\* pending callback is dropped.
clearTimeout_StaleHandle(ts, handle) == ts

\* clearTimeout(handle): the callback with that handle, if pending, is dropped
clearTimeout(ts, handle) == {t \in ts : t.id # handle}

\* setTimeout(callback, delay): callback is runSimulation of closure c
setTimeout(ts, handle, c, delay) ==
    ts \cup {[id |-> handle, remaining |-> delay, closure |-> c]}

\* triggerDebouncedSimulation: clear the timer armed last, arm a new one
triggerDebouncedSimulation(ts, ref, handle, c) ==
    setTimeout(IF ref # NoTimer THEN clearTimeout(ts, ref) ELSE ts,
               handle, c, DEBOUNCE_DELAY)

\* The dependencies as they would be were initialState not among them, nor
\* among those of runSimulation: an edit of the initial state alone would arm
\* no timer.
EffectDeps_WithoutInitialState == {"parameters", "selectedModel"}

\* The dependencies as they would be were the published result among them:
\* publishing would then run the effect again.
EffectDeps_WithPublished ==
    {"parameters", "initialState", "selectedModel", "simulationResult"}

\* The state the auto-recalculate effect depends on (its dependency list and,
\* through triggerDebouncedSimulation and runSimulation, theirs).
EffectDeps == {"parameters", "initialState", "selectedModel"}

\* The effect as it would be were the handle of the armed timer never looked
\* at: neither the cleanup nor triggerDebouncedSimulation clears a timer.
AutoRecalculate_NeverClears(written, ts, ref, handle, c) ==
    IF written \cap {"parameters", "initialState", "selectedModel"} # {}
    THEN [timers |-> setTimeout(ts, handle, c, DEBOUNCE_DELAY), ref |-> handle]
    ELSE [timers |-> ts, ref |-> ref]

\* The render after a handler that wrote the state in `written`: when a
\* dependency changed, the effect's cleanup runs, then the effect.
AutoRecalculate(written, ts, ref, handle, c) ==
    IF written \cap EffectDeps # {}
    THEN LET cleaned == IF ref # NoTimer THEN clearTimeout(ts, ref) ELSE ts
         IN  [timers |-> triggerDebouncedSimulation(cleaned, ref, handle, c),
              ref |-> handle]
    ELSE [timers |-> ts, ref |-> ref]

(***************************************************************************)
(* Inputs of the operations                                                *)
(***************************************************************************)
ParamValues == {Zero, Int2Num(2)}
StateValues == {Rat(1, 2)}
StateKeys == {"S", "I", "R"}

\* Members every plain object inherits from Object.prototype: the `in`
\* operator finds them in MODELS although they are no variants.
ObjectPrototypeKeys == {"toString"}

ModelNames == MODELS \cup ObjectPrototypeKeys \cup {"seir"}

(***************************************************************************)
(* Initial state: the hook has mounted with its defaults and the effect    *)
(* has armed the first timer.                                              *)
(***************************************************************************)
Op(op, arg, threw, before) ==
    [op |-> op, arg |-> arg, threw |-> threw, before |-> before]

Init ==
    /\ selectedModel = "basic-sir"
    /\ parameters = DEFAULT_PARAMETERS
    /\ initialState = DEFAULT_INITIAL_STATE
    /\ simulationResult = null
    /\ r0Value = Zero
    /\ parameterErrors = << >>
    /\ initialStateError = ""
    /\ debounceTimerRef = 1
    /\ timers = triggerDebouncedSimulation({}, NoTimer, 1,
                    Closure("basic-sir", DEFAULT_PARAMETERS,
                            DEFAULT_INITIAL_STATE))
    /\ calls = 0
    /\ lastOp = Op("mount", "", FALSE, null)
    /\ sinceEdit = 0
    /\ burst = 0
    /\ runLog = << >>
    /\ call = NoCall

\* The updates of a handler that made n operation calls were applied in one
\* render: the state in `written` was replaced.
AppliedCalls(written, n) ==
    LET a == AutoRecalculate(written, timers, debounceTimerRef, calls + n + 1,
                             Closure(selectedModel', parameters', initialState'))
    IN  /\ timers' = a.timers
        /\ debounceTimerRef' = a.ref
        /\ calls' = calls + n
        /\ sinceEdit' = 0
        /\ burst' = IF burst > 0 /\ sinceEdit < DEBOUNCE_DELAY /\ runLog = << >>
                    THEN burst + 1 ELSE 1
        /\ runLog' = << >>
        /\ UNCHANGED <<published, call>>

\* An edit was applied: the state in `written` was replaced.
Applied(written) == AppliedCalls(written, 1)

setParameter(paramName, value) ==
    /\ calls < MaxCalls
    /\ parameters' = [k \in DOMAIN parameters \cup {paramName} |->
                        IF k = paramName THEN value ELSE parameters[k]]
    /\ UNCHANGED <<selectedModel, initialState>>
    /\ lastOp' = Op("setParameter", "", FALSE, null)
    /\ Applied({"parameters"})

setInitialState(state) ==
    /\ calls < MaxCalls
    /\ initialState' = [k \in StateKeys |->
                          IF k \in DOMAIN state THEN state[k] ELSE initialState[k]]
    /\ UNCHANGED <<selectedModel, parameters>>
    /\ lastOp' = Op("setInitialState", "", FALSE, null)
    /\ Applied({"initialState"})

\* `parameters.k ?? DEFAULT_PARAMETERS.k`
OrDefault(params, k) ==
    IF Undefined(params, k) THEN DEFAULT_PARAMETERS[k] ELSE params[k]

\* preservedParams as it would be were no parameter dropped: what the new
\* variant does not require stays as found
preservedParams_KeepsAll(modelName, params) ==
    LET requiredParams == getRequiredParameters(modelName)
    IN  [k \in DOMAIN params \cup (requiredParams \cap {"mu", "alpha", "N"}) |->
            OrDefault(params, k)]

\* preservedParams as it would be were mu, alpha and N reset on every switch
preservedParams_AlwaysDefaults(modelName, params) ==
    LET requiredParams == getRequiredParameters(modelName)
    IN  [k \in {"beta", "gamma"} \cup (requiredParams \cap {"mu", "alpha", "N"}) |->
            IF k \in {"beta", "gamma"} THEN params[k] ELSE DEFAULT_PARAMETERS[k]]

\* preservedParams as it would be were mu and alpha copied without a default
preservedParams_RatesNotDefaulted(modelName, params) ==
    LET requiredParams == getRequiredParameters(modelName)
        present == {k \in {"mu", "alpha"} : ~Undefined(params, k)}
    IN  [k \in {"beta", "gamma"} \cup (requiredParams \cap (present \cup {"N"})) |->
            IF k = "N" THEN OrDefault(params, k) ELSE params[k]]

\* The parameters preserved for the variant modelName (lines 449-464)
preservedParams(modelName, params) ==
    LET requiredParams == getRequiredParameters(modelName)
    IN  [k \in {"beta", "gamma"} \cup (requiredParams \cap {"mu", "alpha", "N"}) |->
            IF k \in {"beta", "gamma"} THEN params[k] ELSE OrDefault(params, k)]

Scale(state, N) ==
    [S |-> Mul(state.S, N), I |-> Mul(state.I, N), R |-> Mul(state.R, N)]

Unscale(state, oldN) ==
    [S |-> Div(state.S, oldN), I |-> Div(state.I, oldN), R |-> Div(state.R, oldN)]

\* The rescaling as it would be were only the incoming variant looked at
rescaledInitialState_IgnoresOutgoing(oldName, modelName, params, state) ==
    IF "N" \in getRequiredParameters(modelName)
    THEN Scale(state, OrDefault(params, "N"))
    ELSE Unscale(state, OrDefault(params, "N"))

\* The initial state after a switch from oldName to modelName (lines 466-488)
rescaledInitialState(oldName, modelName, params, state) ==
    LET oldHasN == "N" \in getRequiredParameters(oldName)
        newHasN == "N" \in getRequiredParameters(modelName)
    IN  IF ~oldHasN /\ newHasN
          THEN Scale(state, preservedParams(modelName, params).N)
        ELSE IF oldHasN /\ ~newHasN
          THEN Unscale(state, OrDefault(params, "N"))
        ELSE state

\* `modelName in MODELS`, MODELS being a plain object
InRegistry(modelName) == modelName \in MODELS \cup ObjectPrototypeKeys

\* A call that returns or throws before it writes any state.
Rejected(modelName, threw) ==
    /\ calls' = calls + 1
    /\ lastOp' = Op("setSelectedModel", modelName, threw, null)
    /\ UNCHANGED <<selectedModel, parameters, initialState, simulationResult,
                   r0Value, parameterErrors, initialStateError,
                   debounceTimerRef, timers, sinceEdit, burst, runLog, call>>

setSelectedModel(modelName) ==
    /\ calls < MaxCalls
    /\ IF ~InRegistry(modelName)
       THEN \* logged, early return
            Rejected(modelName, FALSE)
       ELSE IF modelName \notin MODELS
       THEN \* MODELS[modelName] is an inherited member, no variant:
            \* newModel.getRequiredParameters is not a function (TypeError)
            Rejected(modelName, TRUE)
       ELSE LET hadN == "N" \in getRequiredParameters(selectedModel)
                hasN == "N" \in getRequiredParameters(modelName)
            IN  /\ initialState' = rescaledInitialState(selectedModel, modelName,
                                                        parameters, initialState)
                /\ parameters' = preservedParams(modelName, parameters)
                /\ selectedModel' = modelName
                /\ lastOp' = Op("setSelectedModel", modelName, FALSE,
                                Some(Closure(selectedModel, parameters,
                                             initialState)))
                /\ Applied({"parameters"}
                             \cup (IF hadN # hasN THEN {"initialState"} ELSE {})
                             \cup (IF modelName # selectedModel
                                   THEN {"selectedModel"} ELSE {}))

(***************************************************************************)
(* Two operations called by one handler, before the next render.  Both are  *)
(* the callbacks of the same render: setParameter and setInitialState queue *)
(* a function of the state before (`prev => ...`), setSelectedModel reads   *)
(* the parameters, variant and initial state its render closed over (the    *)
(* dependencies at line 492) and queues the values it computed from them.   *)
(* The render applies the queue of each state in order.                     *)
(***************************************************************************)
\* The edit left editedParams and editedState for the switch to find; the
\* switch to the variant modelName replaces the parameters, and the initial
\* state when it rescales.
SwitchInSameHandler(op, modelName, editedParams, editedState) ==
    LET hadN == "N" \in getRequiredParameters(selectedModel)
        hasN == "N" \in getRequiredParameters(modelName)
    IN  /\ calls + 2 <= MaxCalls
        /\ initialState' = IF hadN # hasN
                           THEN rescaledInitialState(selectedModel, modelName,
                                                     parameters, initialState)
                           ELSE editedState
        /\ parameters' = preservedParams(modelName, parameters)
        /\ selectedModel' = modelName
        /\ lastOp' = Op(op, modelName, FALSE,
                        Some(Closure(selectedModel, editedParams, editedState)))
        /\ AppliedCalls({"parameters", "initialState", "selectedModel"}, 2)

\* setParameter(paramName, value); setSelectedModel(modelName)
setParameterThenSelectedModel(paramName, value, modelName) ==
    SwitchInSameHandler("setParameter; setSelectedModel", modelName,
                        [k \in DOMAIN parameters \cup {paramName} |->
                            IF k = paramName THEN value ELSE parameters[k]],
                        initialState)

\* setInitialState(state); setSelectedModel(modelName)
setInitialStateThenSelectedModel(state, modelName) ==
    SwitchInSameHandler("setInitialState; setSelectedModel", modelName,
                        parameters,
                        [k \in StateKeys |->
                            IF k \in DOMAIN state THEN state[k]
                            ELSE initialState[k]])

(***************************************************************************)
(* Time and the timer callback                                             *)
(***************************************************************************)
TICK == DEBOUNCE_DELAY \div TicksPerDelay

\* Time passes while a timer is pending and none is due.
Tick ==
    /\ timers # {}
    /\ \A t \in timers : t.remaining > 0
    /\ timers' = {[t EXCEPT !.remaining = t.remaining - TICK] : t \in timers}
    /\ sinceEdit' = sinceEdit + TICK
    /\ UNCHANGED <<selectedModel, parameters, initialState, simulationResult,
                   r0Value, parameterErrors, initialStateError,
                   debounceTimerRef, calls, lastOp, burst, runLog, call>>

\* A due timer fires: its callback runs runSimulation of the render that
\* armed it, and the render that follows sees only published state changed.
TimerFires(t, overflow) ==
    /\ t \in timers
    /\ t.remaining <= 0
    /\ \E out \in {runSimulation(t.closure, overflow)} :
         \E a \in {AutoRecalculate({"simulationResult", "r0Value",
                                    "parameterErrors", "initialStateError"},
                                   timers \ {t}, debounceTimerRef, calls + 2,
                                   Closure(selectedModel, parameters,
                                           initialState))} :
           /\ simulationResult' = out.simulationResult
           /\ r0Value' = out.r0Value
           /\ parameterErrors' = out.parameterErrors
           /\ initialStateError' = out.initialStateError
           /\ timers' = a.timers
           /\ debounceTimerRef' = a.ref
           /\ runLog' = Append(runLog,
                               [closure |-> t.closure, at |-> sinceEdit,
                                overflow |-> overflow,
                                solveCalled |-> out.solveCalled,
                                solveArgs |-> out.solveArgs,
                                caught |-> out.caught])
    /\ UNCHANGED <<selectedModel, parameters, initialState, calls, lastOp,
                   sinceEdit, burst, call>>

Next ==
    \/ \E paramName \in ParamNames, value \in ParamValues :
          setParameter(paramName, value)
    \/ \E keys \in SUBSET StateKeys : \E state \in [keys -> StateValues] :
          setInitialState(state)
    \/ \E modelName \in ModelNames : setSelectedModel(modelName)
    \/ Tick
    \/ \E t \in timers, overflow \in BOOLEAN : TimerFires(t, overflow)

Spec == Init /\ [][Next]_vars

\* The controller driven also by handlers that edit and switch in one go
HandlerNext ==
    \/ \E paramName \in ParamNames, value \in ParamValues :
          setParameter(paramName, value)
    \/ \E keys \in SUBSET StateKeys : \E state \in [keys -> StateValues] :
          setInitialState(state)
    \/ \E modelName \in ModelNames : setSelectedModel(modelName)
    \/ \E paramName \in ParamNames, value \in ParamValues, modelName \in MODELS :
          setParameterThenSelectedModel(paramName, value, modelName)
    \/ \E keys \in SUBSET StateKeys : \E state \in [keys -> StateValues] :
          \E modelName \in MODELS :
              setInitialStateThenSelectedModel(state, modelName)
    \/ Tick
    \/ \E t \in timers, overflow \in BOOLEAN : TimerFires(t, overflow)

HandlerSpec == Init /\ [][HandlerNext]_vars

\* Timers fire and time passes: the event loop runs a due callback.  The
\* behaviours checked for liveness make at most MaxFairCalls operation calls.
FairNext == Next /\ calls' <= MaxFairCalls

FairSpec ==
    /\ Init
    /\ [][FairNext]_vars
    /\ WF_vars(Tick)
    /\ WF_vars(\E t \in timers, overflow \in BOOLEAN : TimerFires(t, overflow))

(***************************************************************************)
(* The functions of the engine called on their own, as the tests call      *)
(* them: a call records the function, its arguments and its outcome.       *)
(***************************************************************************)
\* The records that give each key of `required` a value of RV and each key
\* of some subset of `optional` a value of OV.
Records(required, RV, optional, OV) ==
    UNION {[required \cup ks -> RV \cup OV] : ks \in SUBSET optional}

ParamRecords(required, RV, optional, OV) ==
    {p \in Records(required, RV, optional, OV) :
        /\ \A k \in required : p[k] \in RV
        /\ \A k \in DOMAIN p \ required : p[k] \in OV}

\* Arguments of computeDerivatives
DerivStates == [S : {Zero, One, Int2Num(2)}, I : {Zero, One, Int2Num(2)},
                R : {Zero, One, Int2Num(2)}]
DerivParams ==
    {p \in ParamRecords({"beta", "gamma"}, {One, Int2Num(2)},
                        {"mu", "alpha", "N"}, {Zero, One, Int2Num(3)}) :
        "N" \in DOMAIN p => p.N # Zero}

\* Arguments of calculateR0
R0Params ==
    ParamRecords({"beta", "gamma"}, {Int2Num(-1), Zero, One, Int2Num(2)},
                 {"mu", "alpha"}, {Int2Num(-1), Zero, One})

\* Arguments of validateInitialConditions: N may be omitted
InitialConditionValues ==
    {Int2Num(-1), Zero, Rat(1, 2), One, NaN, Infinity, NegInfinity}
InitialConditionArgs ==
    ParamRecords({"S0", "I0", "R0"}, InitialConditionValues,
                 {"N"}, {One, Int2Num(2), NaN})

\* Arguments of validateAllParameters; PARAMETER_RANGES has no range for sigma
ValidatedNames == {"beta", "mu", "N", "sigma"}
ValidatedValues == {Zero, One, Int2Num(20), NaN}
ValidatedParams == ParamRecords({}, {}, ValidatedNames, ValidatedValues)

\* Arguments of RK4Solver.solve.  The fractions of a run outgrow the
\* integers of the model checker quickly, so a run of several steps is made
\* with BasicSIR from the states in which it is linear (no susceptible or no
\* infected), and a run of one step with BasicSIR from any state and with
\* the other variants from the states of whole numbers.
SolveStates ==
    {[S |-> One, I |-> Zero, R |-> Zero],
     [S |-> Zero, I |-> One, R |-> Zero],
     [S |-> Zero, I |-> Rat(1, 2), R |-> Rat(1, 2)],
     [S |-> Rat(1, 2), I |-> Zero, R |-> Rat(1, 2)],
     [S |-> Rat(1, 2), I |-> Rat(1, 2), R |-> Zero],
     [S |-> Zero, I |-> Int2Num(2), R |-> Zero],
     [S |-> One, I |-> One, R |-> Zero],
     [S |-> Int2Num(2), I |-> Int2Num(-1), R |-> Zero]}
SolveParams ==
    ParamRecords({"beta", "gamma"}, {One, Int2Num(2)},
                 {"mu", "alpha", "N"}, {One})
SolveTimeSpans ==
    {<<Zero, Zero>>, <<Zero, One>>, <<One, Zero>>, <<One, Int2Num(3)>>,
     <<One, Int2Num(4)>>, <<Zero, Int2Num(5)>>}
SolveTimeSteps == {One, Int2Num(2), Int2Num(-1)}
\* The constants of the constant derivative functions; (1, 0, 0) is that of
\* the integrator's test of dy/dt = 1
SolveConstants ==
    {[S |-> One, I |-> Zero, R |-> Zero],
     [S |-> Rat(1, 2), I |-> Int2Num(-1), R |-> Int2Num(2)]}
SolveDerivatives ==
    {ModelDerivatives(m) : m \in MODELS}
        \cup {ConstantDerivatives(c) : c \in SolveConstants}
WholeNumbers(state) == state.S.d = 1 /\ state.I.d = 1 /\ state.R.d = 1
SolveArgs ==
    {a \in [derivatives : SolveDerivatives, initialState : SolveStates,
            params : SolveParams, timeSpan : SolveTimeSpans,
            timeStep : SolveTimeSteps] :
        LET numSteps == NumSteps(a.timeSpan, a.timeStep)
            basic    == a.derivatives = ModelDerivatives("basic-sir")
        IN  \/ numSteps <= 0
            \/ a.derivatives \in {ConstantDerivatives(c) : c \in SolveConstants}
            \/ /\ numSteps = 1
               /\ Gt(a.timeStep, Zero)
               /\ basic \/ WholeNumbers(a.initialState)
            \/ /\ basic
               /\ a.initialState.S = Zero \/ a.initialState.I = Zero}

\* Arguments of validateParameter: the bounds of every range, values next to
\* them on either side, and the values that are no numbers
RangeValues ==
    {NaN, Infinity, NegInfinity, Int2Num(-1), Zero, Rat(1, 1000000),
     Rat(1, 100000), Rat(1, 10000), Rat(1, 1000), Rat(1, 2), Rat(999, 1000),
     One, Rat(1001, 1000), Int2Num(10), Rat(10001, 1000), Int2Num(11),
     Int2Num(1000000), Int2Num(1000001)}

\* Arguments of validateSimulationResult: sequences with and without a
\* value that is not finite, of several lengths
ResultSequences ==
    {<< >>, <<One>>, <<One, Zero>>, <<One, NaN>>, <<Infinity, One>>,
     <<NegInfinity>>}
SimulationResults ==
    [t : ResultSequences, S : ResultSequences, I : ResultSequences,
     R : ResultSequences]

Called(fn, args, ret) ==
    /\ call' = [args |-> args, fn |-> fn, ret |-> ret]
    /\ UNCHANGED controller

Call_computeDerivatives(m, state, params) ==
    Called("computeDerivatives", [m |-> m, params |-> params, state |-> state],
           computeDerivatives(m, state, params))

\* calculateR0 of every variant on the same parameters
Call_calculateR0(params) ==
    Called("calculateR0", [params |-> params],
           [m \in MODELS |-> calculateR0(m, params)])

\* `N: number = 1`: the capacity when the argument is omitted
DefaultN(args) == IF "N" \in DOMAIN args THEN args.N ELSE One

Call_validateInitialConditions(args) ==
    Called("validateInitialConditions", args,
           validateInitialConditions(args.S0, args.I0, args.R0, DefaultN(args)))

Call_validateAllParameters(params, requiredParams) ==
    Called("validateAllParameters",
           [parameters |-> params, requiredParams |-> requiredParams],
           validateAllParameters(params, requiredParams))

Call_solve(a) ==
    Called("solve", a,
           RK4Solver_solve(a.derivatives, a.initialState, a.params, a.timeSpan,
                           a.timeStep))

Call_validateParameter(paramName, value) ==
    Called("validateParameter", [paramName |-> paramName, value |-> value],
           validateParameter(paramName, value))

Call_validateSimulationResult(result) ==
    Called("validateSimulationResult", [result |-> result],
           validateSimulationResult(result))

\* One call is made in a behaviour.
FnNext ==
    \/ /\ call = NoCall
       /\ \E m \in MODELS, state \in DerivStates, params \in DerivParams :
             Call_computeDerivatives(m, state, params)
    \/ /\ call = NoCall
       /\ \E params \in R0Params : Call_calculateR0(params)
    \/ /\ call = NoCall
       /\ \E args \in InitialConditionArgs : Call_validateInitialConditions(args)
    \/ /\ call = NoCall
       /\ \E params \in ValidatedParams, requiredParams \in SUBSET ValidatedNames :
             Call_validateAllParameters(params, requiredParams)
    \/ /\ call = NoCall
       /\ \E a \in SolveArgs : Call_solve(a)
    \/ /\ call = NoCall
       /\ \E result \in SimulationResults :
             Call_validateSimulationResult(result)
    \/ /\ call = NoCall
       /\ \E paramName \in ParamNames, value \in RangeValues :
             Call_validateParameter(paramName, value)

FnSpec == Init /\ [][FnNext]_vars

(***************************************************************************)
(* Properties                                                              *)
(***************************************************************************)
Current == Closure(selectedModel, parameters, initialState)

\* The computation completed last
LastRun == runLog[Len(runLog)]

\* The last operation was a model switch to a registered variant; Before is
\* the state it found.
SwitchDone == lastOp.op = "setSelectedModel" /\ lastOp.before # null
Before == lastOp.before[1]

ParamsValid(c) == validateCurrentParameters(c).ok
InitialStateValid(c) == validateCurrentInitialState(c).ok

\* C1 (debounce collapse): a computation runs only once the debounce delay
\* has elapsed since the last edit, so none runs between two edits that are
\* less than the delay apart; for the whole burst exactly one computation
\* completes (none while the timer is pending, one once it has fired), and it
\* used the selected model, parameters and initial state left by the last
\* edit.
DebounceCollapse ==
    /\ Len(runLog) <= 1
    /\ (timers = {}) <=> (Len(runLog) = 1)
    /\ (Len(runLog) = 1) =>
          /\ runLog[1].closure = Current
          /\ runLog[1].at >= DEBOUNCE_DELAY

\* Three edits arrived less than the delay apart and one computation ran.
DebounceCollapseWitness == burst >= 3 /\ Len(runLog) = 1 /\ timers = {}

\* C2: a computation whose parameter validation or initial-condition
\* validation fails publishes simulationResult = null and r0Value = 0, leaves
\* no timer pending (Idle) and does not invoke the integrator.
ValidationFailureSkipsSolve ==
    (/\ Len(runLog) >= 1
     /\ (~ParamsValid(LastRun.closure) \/ ~InitialStateValid(LastRun.closure))) =>
            /\ simulationResult = null
            /\ r0Value = Zero
            /\ ~LastRun.solveCalled
            /\ timers = {}

\* A computation ran on valid parameters and an infeasible initial state.
ValidationFailureWitness ==
    /\ Len(runLog) >= 1
    /\ ParamsValid(LastRun.closure)
    /\ ~InitialStateValid(LastRun.closure)
    /\ simulationResult = null

\* C3: after a computation that invoked the integrator, a result with a
\* non-finite value is published as (null, 0) and a finite result as
\* (result, r0) with r0 the variant's R0 of the parameters used.
ResultValidationPublishes ==
    (Len(runLog) >= 1 /\ LastRun.solveCalled /\ ~LastRun.caught) =>
        IF LastRun.overflow
        THEN simulationResult = null /\ r0Value = Zero
        ELSE /\ simulationResult # null
             /\ r0Value = calculateR0(LastRun.closure.selectedModel,
                                      LastRun.closure.parameters).value

\* The defaults C4 names
ClaimedDefaults == [mu |-> Rat(1, 100), alpha |-> Rat(1, 20), N |-> Int2Num(1000)]

\* C4: after a switch to a registered variant, beta and gamma are those found
\* by the switch, and each of mu, alpha, N the variant requires is the value
\* found when there was one, otherwise the default 0.01, 0.05, 1000.
ParametersPreservedOnSwitch ==
    SwitchDone =>
        /\ parameters.beta = Before.parameters.beta
        /\ parameters.gamma = Before.parameters.gamma
        /\ \A k \in getRequiredParameters(lastOp.arg) \cap {"mu", "alpha", "N"} :
              /\ k \in DOMAIN parameters
              /\ parameters[k] = IF k \in DOMAIN Before.parameters
                                 THEN Before.parameters[k]
                                 ELSE ClaimedDefaults[k]

\* A switch kept an edited N and substituted the default for an absent mu.
ParametersPreservedWitness ==
    /\ SwitchDone
    /\ "N" \in DOMAIN Before.parameters
    /\ Before.parameters.N = Int2Num(2)
    /\ "N" \in DOMAIN parameters
    /\ parameters.N = Int2Num(2)
    /\ "mu" \notin DOMAIN Before.parameters
    /\ "mu" \in DOMAIN parameters
    /\ parameters.mu = Rat(1, 100)

\* C5: a switch multiplies S, I, R by the N of the new parameters when only
\* the incoming variant requires N, divides them by the outgoing parameters'
\* N when only the outgoing variant requires N, and otherwise leaves the
\* initial state as it was.
RescaleOnSwitch ==
    SwitchDone =>
        LET oldHasN == "N" \in getRequiredParameters(Before.selectedModel)
            newHasN == "N" \in getRequiredParameters(lastOp.arg)
        IN  \A k \in StateKeys :
              initialState[k] =
                IF ~oldHasN /\ newHasN
                  THEN Mul(Before.initialState[k], parameters.N)
                ELSE IF oldHasN /\ ~newHasN
                  THEN Div(Before.initialState[k], Before.parameters.N)
                ELSE Before.initialState[k]

\* A switch from NaturalDemographics with an edited N = 2 to BasicSIR.
RescaleOnSwitchWitness ==
    /\ SwitchDone
    /\ Before.selectedModel = "natural-demographics"
    /\ selectedModel = "basic-sir"
    /\ Before.parameters.N = Int2Num(2)
    /\ Before.initialState.S = Int2Num(990)
    /\ initialState.S = Int2Num(495)

\* The step is a switch back to BasicSIR that directly follows a switch from
\* BasicSIR to NaturalDemographics.
SwitchBackStep ==
    /\ SwitchDone
    /\ Before.selectedModel = "basic-sir"
    /\ selectedModel = "natural-demographics"
    /\ calls' = calls + 1
    /\ lastOp'.op = "setSelectedModel"
    /\ lastOp'.arg = "basic-sir"

\* C6: BasicSIR -> NaturalDemographics -> BasicSIR restores the initial state
\* the first switch found.
RoundTripRestores ==
    [][SwitchBackStep => initialState' = Before.initialState]_vars

\* The round trip does restore the initial state when the N it multiplied by
\* is finite and not 0.
RoundTripRestoresNonZeroN ==
    [][(SwitchBackStep /\ isFinite(parameters.N) /\ parameters.N # Zero) =>
          initialState' = Before.initialState]_vars

\* (0.99, 0.01, 0) went to (990, 10, 0) and came back.
RoundTripWitness ==
    /\ SwitchDone
    /\ calls = 2
    /\ selectedModel = "basic-sir"
    /\ Before.selectedModel = "natural-demographics"
    /\ Before.initialState = [S |-> Int2Num(990), I |-> Int2Num(10), R |-> Zero]
    /\ initialState = [S |-> Rat(99, 100), I |-> Rat(1, 100), R |-> Zero]

\* C7: setSelectedModel with a name that is no registered variant changes
\* none of selectedModel, parameters, initialState, simulationResult and
\* r0Value, and no error escapes the call.
UnknownModelIsNoOp ==
    [][(calls' = calls + 1 /\ lastOp'.op = "setSelectedModel"
        /\ lastOp'.arg \notin MODELS) =>
          /\ UNCHANGED <<selectedModel, parameters, initialState,
                         simulationResult, r0Value>>
          /\ ~lastOp'.threw]_vars

\* C8: in every reachable state the parameters hold a value for every
\* parameter the selected variant requires, so neither calculateR0 nor
\* computeDerivatives of the variant throws on them, and no computation the
\* controller ran had an error to catch.
RequiredParametersPresent ==
    /\ getRequiredParameters(selectedModel) \subseteq DOMAIN parameters
    /\ ~calculateR0(selectedModel, parameters).threw
    /\ ~computeDerivativesThrows(selectedModel, parameters)
    /\ \A i \in DOMAIN runLog : ~runLog[i].caught

\* DiseaseDeaths was selected from a state without alpha, and computed.
RequiredParametersWitness ==
    /\ SwitchDone
    /\ selectedModel = "disease-deaths"
    /\ "alpha" \notin DOMAIN Before.parameters
    /\ Len(runLog) = 1

\* C10 (life cycle): a pending timer leads to Idle with one computation
\* completed and its outcome published; once Idle the controller stays Idle
\* until the next operation call; the step that publishes an outcome leaves
\* no timer pending.
ControllerLifeCycle ==
    /\ (timers # {}) ~> (timers = {} /\ Len(runLog) = 1)
    /\ [][timers = {} => (timers' = {} \/ calls' = calls + 1)]_vars
    /\ [][Len(runLog') > Len(runLog) => timers' = {}]_vars

\* Idle after a computation that published a result.
ControllerLifeCycleWitness ==
    /\ timers = {}
    /\ Len(runLog) = 1
    /\ simulationResult # null
    /\ calls >= 1

\* C11: in every reachable state at most one debounce timer is pending, and
\* it is the one whose handle the controller holds: the timer armed before
\* was cancelled when the new one was armed.
AtMostOneTimer ==
    /\ Cardinality(timers) <= 1
    /\ \A t \in timers : t.id = debounceTimerRef

\* A second edit arrived while the timer of the first was pending, and one
\* timer is pending.
AtMostOneTimerWitness ==
    /\ burst >= 2
    /\ sinceEdit = 0
    /\ Cardinality(timers) = 1

\* C12: a computation that invoked the integrator passed it the time span
\* [0, 500] and the step 0.1 when it ran NaturalDemographics or DiseaseDeaths
\* (the variants that require mu), and [0, 100] and 0.01 when it ran BasicSIR.
TimeSpanAndStep ==
    \A i \in DOMAIN runLog :
        runLog[i].solveCalled =>
            /\ runLog[i].solveArgs # null
            /\ LET m == runLog[i].closure.selectedModel
                   a == runLog[i].solveArgs[1]
               IN  IF m \in {"natural-demographics", "disease-deaths"}
                   THEN a.timeSpan = <<Zero, Int2Num(500)>> /\ a.timeStep = Rat(1, 10)
                   ELSE a.timeSpan = <<Zero, Int2Num(100)>> /\ a.timeStep = Rat(1, 100)

\* DiseaseDeaths was computed on [0, 500] with step 0.1.
TimeSpanAndStepWitness ==
    /\ Len(runLog) = 1
    /\ runLog[1].solveCalled
    /\ runLog[1].closure.selectedModel = "disease-deaths"
    /\ runLog[1].solveArgs = Some([timeSpan |-> <<Zero, Int2Num(500)>>,
                                    timeStep |-> Rat(1, 10)])

\* The sum of the components of a state
SumOf(state) == Add(Add(state.S, state.I), state.R)

\* C13: the components computeDerivatives of DiseaseDeaths returns sum to
\* -alpha*I at every state and parameter set, also when S+I+R differs from N;
\* the sum is negative when alpha > 0 and I > 0, and 0 when alpha = 0.
DiseaseDeathsSumIsMinusAlphaI ==
    (/\ call.fn = "computeDerivatives"
     /\ call.args.m = "disease-deaths"
     /\ ~call.ret.threw) =>
        LET alpha == call.args.params.alpha
            I     == call.args.state.I
            sum   == SumOf(call.ret.value)
        IN  /\ sum = Neg(Mul(alpha, I))
            /\ (Gt(alpha, Zero) /\ Gt(I, Zero)) => Lt(sum, Zero)
            /\ (alpha = Zero) => (sum = Zero)

\* The sum is -alpha*I when the state's total is N (or mu is 0): the births
\* are mu*N.
DiseaseDeathsSumAtTotalN ==
    (/\ call.fn = "computeDerivatives"
     /\ call.args.m = "disease-deaths"
     /\ ~call.ret.threw) =>
        LET q == call.args.params
            st == call.args.state
        IN  SumOf(call.ret.value) =
               Sub(Mul(q.mu, Sub(q.N, SumOf(st))), Mul(q.alpha, st.I))

\* calculateR0 returned for every variant.
R0Returned ==
    /\ call.fn = "calculateR0"
    /\ \A m \in MODELS : ~call.ret[m].threw

R0Of(m) == call.ret[m].value

\* C14: for the same beta, gamma, mu and any alpha > 0, R0 of DiseaseDeaths is
\* less than R0 of NaturalDemographics, which is less than R0 of BasicSIR.
R0Ordering ==
    (R0Returned /\ Gt(call.args.params.alpha, Zero)) =>
        /\ Lt(R0Of("disease-deaths"), R0Of("natural-demographics"))
        /\ Lt(R0Of("natural-demographics"), R0Of("basic-sir"))

\* C14 as amended: for beta > 0, gamma >= 0, mu >= 0 and alpha > 0, R0 of
\* DiseaseDeaths is less than R0 of NaturalDemographics, which is at most R0
\* of BasicSIR, and less than it when mu > 0.
R0OrderingPositiveRates ==
    (/\ R0Returned
     /\ Gt(call.args.params.alpha, Zero)
     /\ Gt(call.args.params.beta, Zero)
     /\ ~Lt(call.args.params.gamma, Zero)
     /\ ~Lt(call.args.params.mu, Zero)) =>
        /\ Lt(R0Of("disease-deaths"), R0Of("natural-demographics"))
        /\ \/ Lt(R0Of("natural-demographics"), R0Of("basic-sir"))
           \/ /\ call.args.params.mu = Zero
              /\ R0Of("natural-demographics") = R0Of("basic-sir")

\* beta 2, gamma 1, mu 1, alpha 1: R0 is 2/3 < 1 < 2.
R0OrderingWitness ==
    /\ R0Returned
    /\ call.args.params = [beta |-> Int2Num(2), gamma |-> One, mu |-> One,
                           alpha |-> One]
    /\ R0Of("disease-deaths") = Rat(2, 3)
    /\ R0Of("natural-demographics") = One
    /\ R0Of("basic-sir") = Int2Num(2)

\* What C15 says calculateR0 returns on a denominator that is 0
OnZeroDenominator(beta) == Returns(IF Gt(beta, Zero) THEN Infinity ELSE Zero)

\* calculateR0 of NaturalDemographics on gamma + mu = 0
NaturalDemographicsR0ZeroDenominator ==
    (/\ call.fn = "calculateR0"
     /\ "mu" \in DOMAIN call.args.params
     /\ Add(call.args.params.gamma, call.args.params.mu) = Zero) =>
        call.ret["natural-demographics"] = OnZeroDenominator(call.args.params.beta)

\* calculateR0 of DiseaseDeaths on gamma + mu + alpha = 0
DiseaseDeathsR0ZeroDenominator ==
    (/\ call.fn = "calculateR0"
     /\ {"mu", "alpha"} \subseteq DOMAIN call.args.params
     /\ Add(Add(call.args.params.gamma, call.args.params.mu),
            call.args.params.alpha) = Zero) =>
        call.ret["disease-deaths"] = OnZeroDenominator(call.args.params.beta)

\* C15: calculateR0 of NaturalDemographics and of DiseaseDeaths, on a
\* denominator that is exactly 0, returns +Infinity when beta > 0 and 0
\* otherwise, and throws nothing.
R0ZeroDenominator ==
    NaturalDemographicsR0ZeroDenominator /\ DiseaseDeathsR0ZeroDenominator

\* C16: computeDerivatives throws, whatever the state, exactly when a
\* required optional parameter is absent: mu or N for NaturalDemographics,
\* mu, alpha or N for DiseaseDeaths; BasicSIR never throws.
DerivativesThrowOnMissing ==
    (call.fn = "computeDerivatives") =>
        LET present == DOMAIN call.args.params
            m == call.args.m
        IN  call.ret.threw <=>
               \/ m = "natural-demographics" /\ ~({"mu", "N"} \subseteq present)
               \/ m = "disease-deaths"
                     /\ ~({"mu", "alpha", "N"} \subseteq present)

\* DiseaseDeaths threw on parameters that lack alpha only.
DerivativesThrowWitness ==
    /\ call.fn = "computeDerivatives"
    /\ call.args.m = "disease-deaths"
    /\ DOMAIN call.args.params = {"beta", "gamma", "mu", "N"}
    /\ call.ret.threw

\* `sum <= N + 1e-10`
WithinTolerance(sum, N) ==
    IF isNaN(sum) \/ isNaN(N) THEN FALSE
    ELSE IF isFinite(sum) /\ isFinite(N)
    THEN LET diff == Sub(sum, N)
         IN  \/ diff.n <= 0
             \/ diff.d >= TenPow5 /\ diff.n * TenPow5 <= diff.d \div TenPow5
    ELSE sum = N \/ Lt(sum, N)

\* The condition C19 gives for a valid outcome
FeasibleInitialConditions(S0, I0, R0, N) ==
    /\ isFinite(S0) /\ isFinite(I0) /\ isFinite(R0)
    /\ ~Lt(S0, Zero) /\ ~Lt(I0, Zero) /\ ~Lt(R0, Zero)
    /\ WithinTolerance(Add(Add(S0, I0), R0), N)

\* C19: validateInitialConditions(S0, I0, R0, N) is valid exactly when the
\* three values are finite and not negative and S0+I0+R0 <= N + 1e-10, N
\* being 1 when omitted.
InitialConditionsValidExactly ==
    (call.fn = "validateInitialConditions") =>
        (call.ret.isValid <=>
            FeasibleInitialConditions(call.args.S0, call.args.I0, call.args.R0,
                                      IF "N" \in DOMAIN call.args
                                      THEN call.args.N ELSE One))

\* The same for every capacity N that is not NaN
InitialConditionsValidExactlyNumberN ==
    (call.fn = "validateInitialConditions" /\ ~isNaN(DefaultN(call.args))) =>
        (call.ret.isValid <=>
            FeasibleInitialConditions(call.args.S0, call.args.I0, call.args.R0,
                                      IF "N" \in DOMAIN call.args
                                      THEN call.args.N ELSE One))

\* The parameters restricted to the names in `names`
Restrict(params, names) == [k \in DOMAIN params \cap names |-> params[k]]

\* An entry is as C20 says: '<name> is required' for an absent name, the
\* range check of the value otherwise.
EntryAsClaimed(name) ==
    call.ret[name] =
        IF name \notin DOMAIN call.args.parameters
        THEN [isValid |-> FALSE, error |-> name \o " is required"]
        ELSE validateParameter(name, call.args.parameters[name])

\* Names that are not required produce no entry and do not change the outcome.
OnlyRequiredCount ==
    /\ DOMAIN call.ret \subseteq call.args.requiredParams
    /\ call.ret = validateAllParameters(
                     Restrict(call.args.parameters, call.args.requiredParams),
                     call.args.requiredParams)

SolveReturned == call.fn = "solve" /\ ~call.ret.threw

\* C17: for timeStep > 0 and tEnd >= tStart, solve returns t, S, I and R of
\* the common length floor((tEnd - tStart) / timeStep) + 1, and their first
\* entries are tStart and the initial state, unmodified.
SolveLengthAndFirstEntry ==
    (/\ SolveReturned
     /\ Gt(call.args.timeStep, Zero)
     /\ ~Lt(call.args.timeSpan[2], call.args.timeSpan[1])) =>
        LET tStart == call.args.timeSpan[1]
            tEnd   == call.args.timeSpan[2]
            length == Floor(Div(Sub(tEnd, tStart), call.args.timeStep)) + 1
            out    == call.ret.value
        IN  /\ Len(out.t) = length /\ Len(out.S) = length
            /\ Len(out.I) = length /\ Len(out.R) = length
            /\ out.t[1] = tStart
            /\ [S |-> out.S[1], I |-> out.I[1], R |-> out.R[1]]
                  = call.args.initialState

\* A span of 3 was integrated with step 2: floor(3/2) + 1 = 2 points, the
\* second one after a step that changed the state.
SolveLengthWitness ==
    /\ SolveReturned
    /\ call.args.timeSpan = <<One, Int2Num(4)>>
    /\ call.args.timeStep = Int2Num(2)
    /\ call.ret.value.t = <<One, Int2Num(3)>>
    /\ Len(call.ret.value.S) = 2
    /\ call.ret.value.S[2] # call.ret.value.S[1]

\* C18: BasicSIR integrated from a state with S0 + I0 + R0 = 1 and valid beta
\* and gamma has S[i] + I[i] + R[i] = 1 at every output index.
BasicSIRConservation ==
    (/\ SolveReturned
     /\ call.args.derivatives = ModelDerivatives("basic-sir")
     /\ SumOf(call.args.initialState) = One
     /\ validateParameter("beta", call.args.params.beta).isValid
     /\ validateParameter("gamma", call.args.params.gamma).isValid) =>
        LET out == call.ret.value
        IN  \A i \in 1..Len(out.t) :
                Add(Add(out.S[i], out.I[i]), out.R[i]) = One

\* BasicSIR made a step from a state with susceptible and infected, summing
\* to 1, and every compartment changed.
BasicSIRConservationWitness ==
    /\ SolveReturned
    /\ call.args.derivatives = ModelDerivatives("basic-sir")
    /\ call.args.initialState = [S |-> Rat(1, 2), I |-> Rat(1, 2), R |-> Zero]
    /\ Len(call.ret.value.t) = 2
    /\ call.ret.value.S[2] # Rat(1, 2)
    /\ call.ret.value.I[2] # Rat(1, 2)
    /\ call.ret.value.R[2] # Zero

\* BasicSIR made three steps from a state summing to 1.
BasicSIRConservationLongRun ==
    /\ SolveReturned
    /\ call.args.derivatives = ModelDerivatives("basic-sir")
    /\ call.args.initialState = [S |-> Zero, I |-> Rat(1, 2), R |-> Rat(1, 2)]
    /\ Len(call.ret.value.t) = 4
    /\ call.ret.value.I[4] # call.ret.value.I[3]

\* The ranges as C21 states them: beta [1e-5, 10], gamma [1e-3, 10],
\* mu [0, 1], alpha [0, 10], N [1, 1e6]
ClaimedRange(name) ==
    CASE name = "beta" -> <<Rat(1, 100000), Int2Num(10)>>
      [] name = "gamma" -> <<Rat(1, 1000), Int2Num(10)>>
      [] name = "mu" -> <<Zero, One>>
      [] name = "alpha" -> <<Zero, Int2Num(10)>>
      [] name = "N" -> <<One, Int2Num(1000000)>>

\* min <= v <= max for finite v
Within(v, range) ==
    /\ v = range[1] \/ Lt(range[1], v)
    /\ v = range[2] \/ Lt(v, range[2])

\* C21: validateParameter(name, v) is valid exactly when v is finite and lies
\* in the range of the name, both bounds included; NaN and the infinities
\* are rejected for every name.
ParameterValidExactlyInRange ==
    (call.fn = "validateParameter") =>
        (call.ret.isValid <=>
            /\ isFinite(call.args.value)
            /\ Within(call.args.value, ClaimedRange(call.args.paramName)))

\* beta was validated at its lower bound 1e-5 and accepted.
ParameterAtBoundWitness ==
    /\ call.fn = "validateParameter"
    /\ call.args.paramName = "beta"
    /\ call.args.value = Rat(1, 100000)
    /\ call.ret.isValid

\* gamma was validated just above its upper bound, and at Infinity, and
\* rejected.
ParameterRejectedWitness ==
    /\ call.fn = "validateParameter"
    /\ call.args.paramName = "gamma"
    /\ call.args.value \in {Rat(10001, 1000), Infinity}
    /\ ~call.ret.isValid

\* The sequence holds a value that is not finite.
HasNonFinite(values) ==
    \E i \in 1..Len(values) :
        values[i] = NaN \/ values[i] = Infinity \/ values[i] = NegInfinity

\* The sequences of a result in the order time, susceptible, infected,
\* recovered
InOrder(result) == <<result.t, result.S, result.I, result.R>>

\* The sequence an error message names: 1 time, 2 susceptible, 3 infected,
\* 4 recovered; 0 when it names none.
NamedSequence(error) ==
    CASE error = "Time values are invalid" -> 1
      [] error = "Susceptible population values are invalid. Simulation produced invalid values (NaN or Infinity). Try reducing beta or increasing gamma." -> 2
      [] error = "Infected population values are invalid. Simulation produced invalid values (NaN or Infinity). Try reducing beta or increasing gamma." -> 3
      [] error = "Recovered population values are invalid. Simulation produced invalid values (NaN or Infinity). Try reducing beta or increasing gamma." -> 4
      [] OTHER -> 0

\* C22: validateSimulationResult is valid exactly when every value of t, S,
\* I and R is finite; otherwise its error names the first sequence, in the
\* order time, susceptible, infected, recovered, that holds a value that is
\* not finite.
ResultValidNamesFirstOffender ==
    (call.fn = "validateSimulationResult") =>
        LET seqs == InOrder(call.args.result)
            bad  == {i \in 1..4 : HasNonFinite(seqs[i])}
        IN  /\ call.ret.isValid <=> bad = {}
            /\ bad # {} =>
                  /\ NamedSequence(call.ret.error) \in bad
                  /\ \A i \in bad : NamedSequence(call.ret.error) <= i

\* S and R both held a value that is not finite, t and I did not: the error
\* named the susceptible.
ResultNamesFirstWitness ==
    /\ call.fn = "validateSimulationResult"
    /\ ~HasNonFinite(call.args.result.t)
    /\ HasNonFinite(call.args.result.S)
    /\ ~HasNonFinite(call.args.result.I)
    /\ HasNonFinite(call.args.result.R)
    /\ ~call.ret.isValid
    /\ NamedSequence(call.ret.error) = 2

\* Sample i of the arrays solve returned, as a state
Sample(arrays, i) == [S |-> arrays.S[i], I |-> arrays.I[i], R |-> arrays.R[i]]

\* y + x * k, component-wise
Plus(y, x, k) ==
    [S |-> Add(y.S, Mul(x, k.S)), I |-> Add(y.I, Mul(x, k.I)),
     R |-> Add(y.R, Mul(x, k.R))]

\* The step as claimed: y + h/6 * (k1 + 2*k2 + 2*k3 + k4) with k1 = f(y),
\* k2 = f(y + h/2*k1), k3 = f(y + h/2*k2), k4 = f(y + h*k3), f the derivative
\* function at the parameters of the call.
ClaimedStep(f, params, y, h) ==
    LET half == Div(h, Int2Num(2))
        two  == Int2Num(2)
        k[i \in 1..4] ==
            Apply(f, IF i = 1 THEN y ELSE Plus(y, IF i = 4 THEN h ELSE half, k[i - 1]),
                  params).value
        sum  == Plus(Plus(Plus(k[1], two, k[2]), two, k[3]), One, k[4])
    IN  Plus(y, Div(h, Int2Num(6)), sum)

\* C23: every sample solve returns after the first is the claimed step of
\* the sample before it, and with a derivative function that is a constant c
\* sample k, counted from 0, is y0 + k*h*c.
StepFormulaAndConstantSlope ==
    SolveReturned =>
        LET a      == call.args
            arrays == call.ret.value
        IN  /\ \A i \in 1..(Len(arrays.S) - 1) :
                   Sample(arrays, i + 1)
                       = ClaimedStep(a.derivatives, a.params, Sample(arrays, i),
                                     a.timeStep)
            /\ "c" \in DOMAIN a.derivatives =>
                   \A i \in 1..Len(arrays.S) :
                       Sample(arrays, i)
                           = Plus(a.initialState, Mul(Int2Num(i - 1), a.timeStep),
                                  a.derivatives.c)

\* dy/dt = 1 was integrated from 0 over [0, 5] with step 1: six samples, the
\* last one 5.
ConstantSlopeWitness ==
    /\ SolveReturned
    /\ call.args.derivatives
           = ConstantDerivatives([S |-> One, I |-> Zero, R |-> Zero])
    /\ call.args.initialState = [S |-> Zero, I |-> One, R |-> Zero]
    /\ call.args.timeSpan = <<Zero, Int2Num(5)>>
    /\ call.args.timeStep = One
    /\ Len(call.ret.value.S) = 6
    /\ call.ret.value.S[6] = Int2Num(5)

\* A variant's derivative function was integrated over several steps.
VariantStepsWitness ==
    /\ SolveReturned
    /\ "m" \in DOMAIN call.args.derivatives
    /\ Len(call.ret.value.S) >= 3
    /\ call.ret.value.I[3] # call.ret.value.I[1]

\* isValid, as the hook computes it from the published errors (lines 506-510)
isValid == DOMAIN parameterErrors = {} /\ initialStateError = ""

\* C24: in every reachable state of the controller, a published result that
\* is not null comes with no parameter error and no initial-state error.
ResultImpliesIsValid == simulationResult # null => isValid

\* After an edit, a computation published a result; an earlier one, or none,
\* had run before the edit.
ResultPublishedWitness ==
    /\ calls > 0
    /\ Len(runLog) = 1
    /\ simulationResult # null
    /\ isValid

\* A computation published an error and no result.
ErrorPublishedWitness ==
    /\ Len(runLog) = 1
    /\ simulationResult = null
    /\ initialStateError # ""

\* No timer is pending; a computation is one step, so none is running.
Idle == timers = {}

\* What runSimulation publishes: result, R0 and the two error values
Outputs(out) ==
    <<out.simulationResult, out.r0Value, out.parameterErrors,
      out.initialStateError>>

\* The published values are those a computation yields from the current
\* selected model, parameters and initial state.
PublishedIsCurrent ==
    \E overflow \in BOOLEAN : published = Outputs(runSimulation(Current, overflow))

\* C25: whenever the controller is idle, a computation has completed and the
\* published result, R0 and errors are those computed from the current
\* selected model, parameters and initial state; they differ from them only
\* while a timer is pending.
IdleOutputsAreCurrent ==
    /\ Idle => runLog # << >> /\ published = Outputs(runSimulation(Current, LastRun.overflow))
    /\ ~PublishedIsCurrent => ~Idle

\* Idle after an edit that followed an earlier computation: the outputs are
\* those of the edited inputs, and not those published before the edit.
IdleAfterEditWitness ==
    /\ Idle
    /\ calls >= 2
    /\ lastOp.op = "setInitialState"
    /\ runLog # << >>
    /\ initialStateError # ""

\* While a timer is pending the published outputs are not those of the
\* current inputs.
StaleWhileDebouncingWitness == ~Idle /\ calls > 0 /\ ~PublishedIsCurrent

\* The inputs a computation runs with, c, mix the two sides of the switch
\* made last: the new variant with the parameters or the initial state the
\* switch found, where it replaced them, or the old variant with the initial
\* state the switch wrote.
MixesSwitch(c) ==
    \/ /\ c.selectedModel = selectedModel
       /\ \/ c.parameters = Before.parameters /\ parameters # Before.parameters
          \/ c.initialState = Before.initialState
                /\ initialState # Before.initialState
    \/ /\ c.selectedModel = Before.selectedModel
       /\ selectedModel # Before.selectedModel
       /\ c.initialState = initialState
       /\ initialState # Before.initialState

\* C26: after a switch, every computation that has run and every one that is
\* pending has the variant, the parameters and the initial state the switch
\* wrote, all three; none mixes them with what the switch found.
SwitchIsOneUpdate ==
    SwitchDone =>
        /\ \A i \in 1..Len(runLog) :
              /\ runLog[i].closure.selectedModel = selectedModel
              /\ runLog[i].closure.parameters = parameters
              /\ runLog[i].closure.initialState = initialState
              /\ ~MixesSwitch(runLog[i].closure)
        /\ \A t \in timers :
              /\ t.closure.selectedModel = selectedModel
              /\ t.closure.parameters = parameters
              /\ t.closure.initialState = initialState
              /\ ~MixesSwitch(t.closure)

\* A computation ran after a switch that replaced the variant, dropped or
\* added parameters and rescaled the initial state.
SwitchThenRunWitness ==
    /\ SwitchDone
    /\ Len(runLog) = 1
    /\ selectedModel # Before.selectedModel
    /\ parameters # Before.parameters
    /\ initialState # Before.initialState
    /\ runLog[1].closure.selectedModel = selectedModel

\* The last handler edited and then switched to a registered variant; Before
\* is then what the edit left for the switch: the variant selected, and the
\* parameters and the initial state as edited.
EditThenSwitchDone ==
    lastOp.op \in {"setParameter; setSelectedModel",
                   "setInitialState; setSelectedModel"}

\* C27: after an edit and a switch made before the edit's update was
\* applied, the parameters and the initial state are those the switch
\* derives from the edited values.
EditBeforeSwitchKept ==
    EditThenSwitchDone =>
        /\ parameters = preservedParams(lastOp.arg, Before.parameters)
        /\ initialState = rescaledInitialState(Before.selectedModel, lastOp.arg,
                                               Before.parameters,
                                               Before.initialState)

\* An initial-state edit followed in the same handler by a switch that does
\* not rescale is kept.
EditBeforeSwitchKeptWitness ==
    /\ lastOp.op = "setInitialState; setSelectedModel"
    /\ Before.initialState # DEFAULT_INITIAL_STATE
    /\ initialState = Before.initialState

\* N, where the parameters hold one, is within its range [1, 1000000]; where
\* they hold none a switch takes the default.
NInRange(params) ==
    Undefined(params, "N") \/ validateParameter("N", params.N).isValid

\* The capacity as claimed: 1 for BasicSIR, parameters.N for a variant with N
ClaimedCapacity(c) ==
    IF c.selectedModel = "basic-sir" THEN One ELSE c.parameters.N

\* The initial state of c passes validateInitialConditions against the
\* capacity of the variant of c.
Feasible(c) ==
    validateInitialConditions(c.initialState.S, c.initialState.I,
                              c.initialState.R, ClaimedCapacity(c)).isValid

SwitchFromInvalidNWitness ==
    /\ SwitchDone
    /\ Feasible(Before)
    /\ ~NInRange(Before.parameters)
    /\ ~Feasible(Current)

\* C29: the edits of the model supply finite numbers only; in every
\* reachable state S, I and R of the initial state are finite.
InitialStateFinite ==
    /\ isFinite(initialState.S)
    /\ isFinite(initialState.I)
    /\ isFinite(initialState.R)

\* Every edit the model makes supplies a finite number.
EditsAreFinite ==
    /\ \A v \in ParamValues : isFinite(v)
    /\ \A v \in StateValues : isFinite(v)

\* A switch from a variant with N to BasicSIR found N = 0.
DividedByZeroN ==
    /\ SwitchDone
    /\ "N" \in getRequiredParameters(Before.selectedModel)
    /\ lastOp.arg = "basic-sir"
    /\ Before.parameters.N = Zero

\* The last operation was a switch to BasicSIR.
SwitchedToBasicSIR == SwitchDone /\ lastOp.arg = "basic-sir"

\* This step is a switch to a variant that requires more than BasicSIR does.
SwitchToDemographicStep ==
    /\ calls' = calls + 1
    /\ lastOp'.op = "setSelectedModel"
    /\ lastOp'.arg \in {"natural-demographics", "disease-deaths"}

\* The state found by the switch to BasicSIR made last was that of
\* NaturalDemographics: the first half of a round trip.  The second half,
\* the switch back to NaturalDemographics, would write the parameters
\* BackParameters and the initial state BackInitialState.
HalfRoundTrip ==
    SwitchedToBasicSIR /\ Before.selectedModel = "natural-demographics"
BackParameters == preservedParams("natural-demographics", parameters)
BackInitialState ==
    rescaledInitialState("basic-sir", "natural-demographics", parameters,
                         initialState)

\* C30: a switch to BasicSIR leaves beta and gamma only; a switch from there
\* to a variant with mu, alpha or N writes the defaults 0.01, 0.05, 1000 for
\* them; and the switch back that completes NaturalDemographics -> BasicSIR ->
\* NaturalDemographics restores N and the initial state only when N was 1000.
DefaultsAfterBasicSIR ==
    /\ [](SwitchedToBasicSIR => DOMAIN parameters = {"beta", "gamma"})
    /\ [][(SwitchedToBasicSIR /\ SwitchToDemographicStep) =>
            \A k \in getRequiredParameters(lastOp'.arg) \cap {"mu", "alpha", "N"} :
                k \in DOMAIN parameters' /\ parameters'[k] = ClaimedDefaults[k]]_vars
    /\ [](HalfRoundTrip =>
            /\ "N" \in DOMAIN BackParameters
            /\ BackParameters.N = ClaimedDefaults.N
            /\ (BackParameters.N = Before.parameters.N
                    /\ BackInitialState = Before.initialState)
                 => Before.parameters.N = Int2Num(1000))

\* NaturalDemographics with N = 2 was left for BasicSIR: the parameters hold
\* no N, and the switch back would write N = 1000 and an initial state 500
\* times the one found.
DefaultsAfterBasicSIRWitness ==
    /\ HalfRoundTrip
    /\ Before.parameters.N = Int2Num(2)
    /\ DOMAIN parameters = {"beta", "gamma"}
    /\ BackParameters.N = Int2Num(1000)
    /\ BackInitialState # Before.initialState
    /\ BackInitialState = Scale(Before.initialState, Int2Num(500))

\* mu was edited to 2, BasicSIR selected and then NaturalDemographics: mu is
\* the default.
EditedMuDroppedWitness ==
    /\ SwitchDone
    /\ calls = 3
    /\ Before.selectedModel = "basic-sir"
    /\ Before.parameters = [beta |-> Rat(1, 2), gamma |-> Rat(1, 10)]
    /\ selectedModel = "natural-demographics"
    /\ parameters.mu = Rat(1, 100)
    /\ parameters.N = Int2Num(1000)

\* With N = 1000 the round trip was completed and restored N and the initial
\* state.
RoundTripDefaultNWitness ==
    /\ SwitchDone
    /\ calls = 3
    /\ Before.selectedModel = "basic-sir"
    /\ selectedModel = "natural-demographics"
    /\ parameters.N = Int2Num(1000)
    /\ initialState = [S |-> Int2Num(990), I |-> Int2Num(10), R |-> Zero]

=============================================================================
